---- MODULE Spec2Model ----
(***************************************************************************)
(* Todo application: the JSON item store (todos.json), the six mutation    *)
(* tools of todo_graph.py, the HTTP endpoints of backend.py and the        *)
(* command resolver (process_command_with_graph) with its per-thread       *)
(* conversation memory.                                                    *)
(*                                                                         *)
(* Strings are sequences of characters; a character is a TLA+ string.     *)
(* The file content is the sequence of characters json.dump writes, with   *)
(* structural punctuation, keys, digits and literals as single tokens.     *)
(* The whitespace that indent=2 adds is left out: json.load skips it.      *)
(***************************************************************************)
EXTENDS Integers, Sequences, FiniteSets, TLC

\* ------------------------------------------------------------------ bounds
MaxCreates == 2
MaxTurns == 2
MaxToolCalls == 2
MaxRequests == 2

\* -------------------------------------------------------------- characters
DQ == "dq"
BS == "bs"
EACUTE == "e_acute"
Digits == <<"0", "1", "2", "3", "4", "5", "6", "7", "8", "9">>
DigitSet == {Digits[k] : k \in 1..10}
NonAscii == {EACUTE}
Hex4(c) == IF c = EACUTE THEN "00e9" ELSE "0000"
HexSet == {Hex4(c) : c \in NonAscii}
Unhex(h) == CHOOSE c \in NonAscii : Hex4(c) = h

\* Texts the callers and the reasoning component supply.
Texts == {<<"m", "k">>, <<BS, "u", DQ, EACUTE>>}
Threads == {"default", "t2"}
Commands == {"cmd"}
FinalTexts == {<<"o", "k">>}
ArgIds == {1, 2}

RECURSIVE Concat(_)
Concat(ss) == IF ss = <<>> THEN <<>> ELSE Head(ss) \o Concat(Tail(ss))

Max(S) == CHOOSE x \in S : \A y \in S : y <= x

\* str(int): decimal digits of a natural number.
RECURSIVE Dec(_)
Dec(n) == IF n < 10 THEN <<Digits[n + 1]>> ELSE Dec(n \div 10) \o <<Digits[(n % 10) + 1]>>

\* datetime.now().isoformat(): the clock reads a new time at every create.
isoformat(n) == <<"T">> \o Dec(n)

\* --------------------------------------------------------------- json.dump
EscapeChar(c) ==
    IF c = DQ THEN <<BS, DQ>>
    ELSE IF c = BS THEN <<BS, BS>>
    ELSE IF c \in NonAscii THEN <<BS, "u", Hex4(c)>>
    ELSE <<c>>

EncodeString(s) == <<DQ>> \o Concat([i \in 1..Len(s) |-> EscapeChar(s[i])]) \o <<DQ>>

EncodeBool(b) == IF b THEN <<"true">> ELSE <<"false">>

EncodeItem(t) ==
    <<"{">> \o EncodeString(<<"id">>) \o <<":">> \o Dec(t.id)
    \o <<",">> \o EncodeString(<<"text">>) \o <<":">> \o EncodeString(t.text)
    \o <<",">> \o EncodeString(<<"completed">>) \o <<":">> \o EncodeBool(t.completed)
    \o <<",">> \o EncodeString(<<"created_at">>) \o <<":">> \o EncodeString(t.created_at)
    \o <<"}">>

json_dump(todos) ==
    <<"[">>
    \o Concat([i \in 1..Len(todos) |->
                  (IF i = 1 THEN <<>> ELSE <<",">>) \o EncodeItem(todos[i])])
    \o <<"]">>

\* --------------------------------------------------------------- json.load
Fail == [ok |-> FALSE, val |-> <<>>, pos |-> 0]
Parsed(v, p) == [ok |-> TRUE, val |-> v, pos |-> p]

\* The characters of a string literal from position i, just after its opening quote.
RECURSIVE ScanString(_, _, _)
ScanString(s, i, acc) ==
    IF i > Len(s) THEN Fail
    ELSE IF s[i] = DQ THEN Parsed(acc, i + 1)
    ELSE IF s[i] = BS THEN
        IF i + 1 > Len(s) THEN Fail
        ELSE IF s[i + 1] \in {DQ, BS} THEN ScanString(s, i + 2, Append(acc, s[i + 1]))
        ELSE IF s[i + 1] = "u" /\ i + 2 <= Len(s) /\ s[i + 2] \in HexSet
            THEN ScanString(s, i + 3, Append(acc, Unhex(s[i + 2])))
        ELSE Fail
    ELSE ScanString(s, i + 1, Append(acc, s[i]))

DigitVal(d) == (CHOOSE k \in 1..10 : Digits[k] = d) - 1

RECURSIVE ScanInt(_, _, _)
ScanInt(s, i, n) ==
    IF i <= Len(s) /\ s[i] \in DigitSet
        THEN ScanInt(s, i + 1, 10 * n + DigitVal(s[i]))
        ELSE Parsed(n, i)

ParseValue(s, i) ==
    IF i > Len(s) THEN Fail
    ELSE IF s[i] = DQ THEN ScanString(s, i + 1, <<>>)
    ELSE IF s[i] = "true" THEN Parsed(TRUE, i + 1)
    ELSE IF s[i] = "false" THEN Parsed(FALSE, i + 1)
    ELSE IF s[i] \in DigitSet THEN ScanInt(s, i, 0)
    ELSE Fail

\* The pairs of an object: ScanPairs reads from position i, where a key is
\* expected; obj holds the pairs read so far, a later duplicate key replacing
\* an earlier one.
RECURSIVE ScanPairs(_, _, _)

\* After a pair, at position p: a comma and more pairs, or the closing brace.
AfterPair(s, p, obj) ==
    IF s[p] = "," THEN ScanPairs(s, p + 1, obj)
    ELSE IF s[p] = "}" THEN Parsed(obj, p + 1)
    ELSE Fail

\* The key k has been read, and after its colon the value v.
AfterValue(s, obj, k, v) ==
    IF ~v.ok \/ v.pos > Len(s) THEN Fail
    ELSE AfterPair(s, v.pos, (k.val[1] :> v.val) @@ obj)

\* The key k has been read.
AfterKey(s, obj, k) ==
    IF ~k.ok \/ k.pos > Len(s) \/ s[k.pos] # ":" \/ Len(k.val) # 1 THEN Fail
    ELSE AfterValue(s, obj, k, ParseValue(s, k.pos + 1))

ScanPairs(s, i, obj) ==
    IF i > Len(s) \/ s[i] # DQ THEN Fail
    ELSE AfterKey(s, obj, ScanString(s, i + 1, <<>>))

ParseObject(s, i) ==
    IF i + 1 > Len(s) \/ s[i] # "{" THEN Fail
    ELSE IF s[i + 1] = "}" THEN Parsed(<<>>, i + 2)
    ELSE ScanPairs(s, i + 1, <<>>)

\* The elements of an array: ScanElems reads from position i, where an object
\* is expected; acc holds the elements read so far.
RECURSIVE ScanElems(_, _, _)

\* The element e has been read.
AfterElem(s, acc, e) ==
    IF ~e.ok \/ e.pos > Len(s) THEN Fail
    ELSE IF s[e.pos] = "," THEN ScanElems(s, e.pos + 1, Append(acc, e.val))
    ELSE IF s[e.pos] = "]" THEN Parsed(Append(acc, e.val), e.pos + 1)
    ELSE Fail

ScanElems(s, i, acc) == AfterElem(s, acc, ParseObject(s, i))

\* Mutant: characters after the value are ignored.
Whole_lenient(s, r) == r

\* The value r read from the start of s is the whole of s.
Whole(s, r) == IF r.ok /\ r.pos = Len(s) + 1 THEN r ELSE Fail

json_load(s) ==
    Whole(s, IF Len(s) < 2 \/ s[1] # "[" THEN Fail
             ELSE IF s[2] = "]" THEN Parsed(<<>>, 3)
             ELSE ScanElems(s, 2, <<>>))

\* -------------------------------------------------------------- item store
\* The file todos.json: absent, or present with its characters.
NoFile == [exists |-> FALSE, data |-> <<>>]

\* try: return json.load(f); except: return []
LoadedOrEmpty(r) == IF r.ok THEN r.val ELSE <<>>

load_todos(f) ==
    IF f.exists THEN LoadedOrEmpty(json_load(f.data)) ELSE <<>>

\* Mutant: the file opened in mode 'a', so the dump follows the old content.
save_todos_append(f, todos) == [exists |-> TRUE, data |-> f.data \o json_dump(todos)]

\* open(DB_FILE, 'w') truncates the file f, then json.dump writes todos.
save_todos(f, todos) == [exists |-> TRUE, data |-> json_dump(todos)]

\* Mutant: the number of items plus one.
get_next_id_len(todos) == Len(todos) + 1

\* Mutant: max(...) without the + 1.
get_next_id_noinc(todos) ==
    IF todos = <<>> THEN 1 ELSE Max({todos[i].id : i \in 1..Len(todos)})

get_next_id(todos) ==
    IF todos = <<>> THEN 1 ELSE Max({todos[i].id : i \in 1..Len(todos)}) + 1

\* Mutant: the id taken as the position in the list.
FindTodo_byIndex(todos, todo_id) ==
    IF todo_id \in 1..Len(todos) THEN todo_id ELSE 0

\* next((t for t in todos if t['id'] == todo_id), None): the index of the
\* first match, 0 for None.
FindTodo(todos, todo_id) ==
    IF \E i \in 1..Len(todos) : todos[i].id = todo_id
        THEN CHOOSE i \in 1..Len(todos) :
                 /\ todos[i].id = todo_id
                 /\ \A j \in 1..(i - 1) : todos[j].id # todo_id
        ELSE 0

\* Mutant: the list cut at the first item with the id.
RECURSIVE Without_cut(_, _)
Without_cut(todos, todo_id) ==
    IF todos = <<>> THEN <<>>
    ELSE IF Head(todos).id = todo_id THEN <<>>
    ELSE <<Head(todos)>> \o Without_cut(Tail(todos), todo_id)

\* [t for t in todos if t['id'] != todo_id]
RECURSIVE Without(_, _)
Without(todos, todo_id) ==
    IF todos = <<>> THEN <<>>
    ELSE IF Head(todos).id = todo_id THEN Without(Tail(todos), todo_id)
    ELSE <<Head(todos)>> \o Without(Tail(todos), todo_id)

\* ----------------------------------------------------------- mutation tools
\* Each tool maps the file to the file it leaves and the dict it returns.
NotFound(todo_id) ==
    [success |-> FALSE,
     message |-> <<"Todo with ID ">> \o Dec(todo_id) \o <<" not found">>]

\* Mutant: the new item inserted at the front.
create_todo_tool_prepend(f, text, now) ==
    LET todos == load_todos(f)
        new_todo == [id |-> get_next_id(todos), text |-> text,
                     completed |-> FALSE, created_at |-> now]
    IN [file |-> save_todos(f, <<new_todo>> \o todos),
        result |-> [success |-> TRUE, todo |-> new_todo,
                    message |-> <<"Created todo: ">> \o text]]

create_todo_tool(f, text, now) ==
    LET todos == load_todos(f)
        new_todo == [id |-> get_next_id(todos), text |-> text,
                     completed |-> FALSE, created_at |-> now]
    IN [file |-> save_todos(f, Append(todos, new_todo)),
        result |-> [success |-> TRUE, todo |-> new_todo,
                    message |-> <<"Created todo: ">> \o text]]

\* Mutant: the filtered list is never saved.
delete_todo_tool_nosave(f, todo_id) ==
    LET todos == load_todos(f)
        i == FindTodo(todos, todo_id)
    IN IF i = 0
         THEN [file |-> f, result |-> NotFound(todo_id)]
         ELSE [file |-> f,
               result |-> [success |-> TRUE,
                           message |-> <<"Deleted todo: ">> \o todos[i].text]]

delete_todo_tool(f, todo_id) ==
    LET todos == load_todos(f)
        i == FindTodo(todos, todo_id)
    IN IF i = 0
         THEN [file |-> f, result |-> NotFound(todo_id)]
         ELSE [file |-> save_todos(f, Without(todos, todo_id)),
               result |-> [success |-> TRUE,
                           message |-> <<"Deleted todo: ">> \o todos[i].text]]

\* Mutant: the item's flag cleared along with the new text.
update_todo_tool_reset(f, todo_id, new_text) ==
    LET todos == load_todos(f)
        i == FindTodo(todos, todo_id)
    IN IF i = 0
         THEN [file |-> f, result |-> NotFound(todo_id)]
         ELSE [file |-> save_todos(f, [todos EXCEPT ![i].text = new_text,
                                                    ![i].completed = FALSE]),
               result |-> [success |-> TRUE,
                           message |-> <<"Updated todo ">> \o Dec(todo_id)
                                       \o <<" from '">> \o todos[i].text
                                       \o <<"' to '">> \o new_text \o <<"'">>]]

update_todo_tool(f, todo_id, new_text) ==
    LET todos == load_todos(f)
        i == FindTodo(todos, todo_id)
    IN IF i = 0
         THEN [file |-> f, result |-> NotFound(todo_id)]
         ELSE [file |-> save_todos(f, [todos EXCEPT ![i].text = new_text]),
               result |-> [success |-> TRUE,
                           message |-> <<"Updated todo ">> \o Dec(todo_id)
                                       \o <<" from '">> \o todos[i].text
                                       \o <<"' to '">> \o new_text \o <<"'">>]]

\* Mutant: the flag toggled instead of set.
complete_todo_tool_toggle(f, todo_id) ==
    LET todos == load_todos(f)
        i == FindTodo(todos, todo_id)
    IN IF i = 0
         THEN [file |-> f, result |-> NotFound(todo_id)]
         ELSE [file |-> save_todos(f, [todos EXCEPT ![i].completed = ~todos[i].completed]),
               result |-> [success |-> TRUE,
                           message |-> <<"Marked todo as completed: ">> \o todos[i].text]]

complete_todo_tool(f, todo_id) ==
    LET todos == load_todos(f)
        i == FindTodo(todos, todo_id)
    IN IF i = 0
         THEN [file |-> f, result |-> NotFound(todo_id)]
         ELSE [file |-> save_todos(f, [todos EXCEPT ![i].completed = TRUE]),
               result |-> [success |-> TRUE,
                           message |-> <<"Marked todo as completed: ">> \o todos[i].text]]

\* Mutant: success reported without writing the empty list.
delete_all_todos_tool_nosave(f) ==
    [file |-> f,
     result |-> [success |-> TRUE, message |-> <<"All todos deleted">>]]

delete_all_todos_tool(f) ==
    [file |-> save_todos(f, <<>>),
     result |-> [success |-> TRUE, message |-> <<"All todos deleted">>]]

list_todos_tool(f) ==
    LET todos == load_todos(f)
    IN [file |-> f,
        result |-> [success |-> TRUE, todos |-> todos, count |-> Len(todos)]]

\* ---------------------------------------------------------- HTTP endpoints
\* Each endpoint maps the file to the file it leaves and its response; an
\* HTTPException(404) is the response with status 404.
Http404 == [status |-> 404, body |-> [detail |-> <<"Todo not found">>]]
Ok200(body) == [status |-> 200, body |-> body]

get_todos(f) == [file |-> f, response |-> Ok200(load_todos(f))]

\* Mutant: the new item put in front of the list.
create_todo_prepend(f, text, now) ==
    LET todos == load_todos(f)
        new_todo == [id |-> get_next_id(todos), text |-> text,
                     completed |-> FALSE, created_at |-> now]
    IN [file |-> save_todos(f, <<new_todo>> \o todos), response |-> Ok200(new_todo)]

create_todo(f, text, now) ==
    LET todos == load_todos(f)
        new_todo == [id |-> get_next_id(todos), text |-> text,
                     completed |-> FALSE, created_at |-> now]
    IN [file |-> save_todos(f, Append(todos, new_todo)), response |-> Ok200(new_todo)]

get_todo(f, todo_id) ==
    LET todos == load_todos(f)
        i == FindTodo(todos, todo_id)
    IN IF i = 0 THEN [file |-> f, response |-> Http404]
       ELSE [file |-> f, response |-> Ok200(todos[i])]

\* Mutant: completed written from the request also when it is None.
update_todo_always(f, todo_id, text, completed) ==
    LET todos == load_todos(f)
        i == FindTodo(todos, todo_id)
    IN IF i = 0 THEN [file |-> f, response |-> Http404]
       ELSE LET t1 == IF text # <<>> THEN [todos[i] EXCEPT !.text = text[1]]
                      ELSE todos[i]
                t2 == [t1 EXCEPT !.completed = (completed = <<TRUE>>)]
            IN [file |-> save_todos(f, [todos EXCEPT ![i] = t2]), response |-> Ok200(t2)]

\* text and completed are Optional: <<>> is None, <<v>> is the value v.
update_todo(f, todo_id, text, completed) ==
    LET todos == load_todos(f)
        i == FindTodo(todos, todo_id)
    IN IF i = 0 THEN [file |-> f, response |-> Http404]
       ELSE LET t1 == IF text # <<>> THEN [todos[i] EXCEPT !.text = text[1]]
                      ELSE todos[i]
                t2 == IF completed # <<>> THEN [t1 EXCEPT !.completed = completed[1]]
                      ELSE t1
            IN [file |-> save_todos(f, [todos EXCEPT ![i] = t2]), response |-> Ok200(t2)]

delete_todo(f, todo_id) ==
    LET todos == load_todos(f)
        i == FindTodo(todos, todo_id)
    IN IF i = 0 THEN [file |-> f, response |-> Http404]
       ELSE [file |-> save_todos(f, Without(todos, todo_id)),
             response |-> Ok200([message |-> <<"Todo deleted successfully">>])]

delete_all_todos(f) ==
    [file |-> save_todos(f, <<>>),
     response |-> Ok200([message |-> <<"All todos deleted successfully">>])]

\* ------------------------------------------------------- command resolver
\* A tool call the reasoning component requests.
Call(name, todo_id, text) == [name |-> name, todo_id |-> todo_id, text |-> text]

Calls ==
    {Call("create_todo_tool", 0, t) : t \in Texts}
    \cup {Call("delete_todo_tool", i, <<>>) : i \in ArgIds}
    \cup {Call("update_todo_tool", i, t) : i \in ArgIds, t \in Texts}
    \cup {Call("complete_todo_tool", i, <<>>) : i \in ArgIds}
    \cup {Call("delete_all_todos_tool", 0, <<>>), Call("list_todos_tool", 0, <<>>)}

\* The calls the reasoning component requests: its texts are drawn from ModelTexts.
ModelTexts == {<<BS, "u", DQ, EACUTE>>}
ModelCalls == {c \in Calls : c.text \in {<<>>} \cup ModelTexts}

\* ToolNode: the tool a call names, run on the file.
RunTool(f, call, now) ==
    CASE call.name = "create_todo_tool" -> create_todo_tool(f, call.text, now)
      [] call.name = "delete_todo_tool" -> delete_todo_tool(f, call.todo_id)
      [] call.name = "update_todo_tool" -> update_todo_tool(f, call.todo_id, call.text)
      [] call.name = "complete_todo_tool" -> complete_todo_tool(f, call.todo_id)
      [] call.name = "delete_all_todos_tool" -> delete_all_todos_tool(f)
      [] call.name = "list_todos_tool" -> list_todos_tool(f)

HumanMessage(command) == [type |-> "human", content |-> command]
SystemMessage(content) == [type |-> "system", content |-> content]
AIMessage(content, tool_calls) ==
    [type |-> "ai", content |-> content, tool_calls |-> tool_calls]
ToolMessage(name, content) == [type |-> "tool", name |-> name, content |-> content]

\* Mutant: a channel without a reducer, the update replacing the list.
add_messages_replace(left, right) == right

\* The reducer of TodoAgentState.messages: the messages a node returns that
\* are not yet in the list are added at its end.
add_messages(left, right) == left \o right

\* The lines "ID {id}: {text} ({completed|pending})" joined by newlines.
todos_context(todos) ==
    Concat([i \in 1..Len(todos) |->
        (IF i = 1 THEN <<>> ELSE <<"\n">>)
        \o <<"ID ">> \o Dec(todos[i].id) \o <<": ">> \o todos[i].text
        \o <<" (">> \o (IF todos[i].completed THEN <<"completed">> ELSE <<"pending">>)
        \o <<")">>])

system_msg(todos) ==
    <<"You are a helpful todo assistant. Current todos:\n">> \o todos_context(todos)
    \o <<"\n\nWhen the user asks about todos by text (not ID), find the matching ID from the list above.\nAlways use the appropriate tool to perform actions.">>

\* Mutant: a cap of one round trip a thread.
should_continue_capped(msgs) ==
    LET last_message == msgs[Len(msgs)]
    IN IF /\ "tool_calls" \in DOMAIN last_message /\ last_message.tool_calls # <<>>
          /\ \A i \in 1..Len(msgs) : msgs[i].type # "tool"
         THEN "tools" ELSE "__end__"

\* Mutant: the edge to the tools never taken.
should_continue_stop(msgs) == "__end__"

\* should_continue: the node after the agent, from the last message.
should_continue(msgs) ==
    LET last_message == msgs[Len(msgs)]
    IN IF "tool_calls" \in DOMAIN last_message /\ last_message.tool_calls # <<>>
         THEN "tools" ELSE "__end__"

ToolIndexes(msgs) == {i \in 1..Len(msgs) : msgs[i].type = "tool"}

\* The result process_command_with_graph builds from the final state's messages.
process_command_with_graph(msgs) ==
    LET found == ToolIndexes(msgs)
        result == IF found = {}
                    THEN [success |-> FALSE, message |-> <<"No result">>]
                    ELSE msgs[Max(found)].content
    IN IF ~result.success
         THEN [success |-> TRUE, message |-> msgs[Len(msgs)].content]
         ELSE result

\* "kw" in message.lower(): the literal pieces of the messages that hold kw
\* (the texts of the model spell none of the keywords).
Mentions(message, kw) ==
    \E i \in 1..Len(message) :
        CASE kw = "create" -> message[i] = "Created todo: "
          [] kw = "deleted" -> message[i] \in {"Deleted todo: ", "All todos deleted"}
          [] kw = "all" -> message[i] = "All todos deleted"
          [] kw = "updated" -> message[i] = "Updated todo "
          [] kw = "completed" -> message[i] = "Marked todo as completed: "

\* The envelope process_command returns for a result.
Envelope(result) ==
    LET message == IF "message" \in DOMAIN result THEN result.message ELSE <<>>
        action ==
            IF ~result.success THEN "None"
            ELSE IF Mentions(message, "create") THEN "create"
            ELSE IF Mentions(message, "deleted") /\ Mentions(message, "all") THEN "delete_all"
            ELSE IF Mentions(message, "deleted") THEN "delete"
            ELSE IF Mentions(message, "updated") THEN "update"
            ELSE IF Mentions(message, "completed") THEN "complete"
            ELSE IF "todos" \in DOMAIN result THEN "list"
            ELSE "None"
        todo_text == IF action = "create" /\ "todo" \in DOMAIN result
                       THEN <<result.todo.text>> ELSE <<>>
    IN [action |-> action, todo_id |-> "None", todo_text |-> todo_text,
        result |-> result, message |-> message]

\* POST /todos/process-command, from the final state's messages.
process_command(msgs) == Ok200(Envelope(process_command_with_graph(msgs)))

\* Mutant: the envelope without the exception text.
process_command_error_notext(e) ==
    Ok200([action |-> "None", todo_id |-> "None", todo_text |-> <<>>,
           result |-> [success |-> FALSE, message |-> <<"Error processing command">>],
           message |-> <<"Error">>])

\* POST /todos/process-command, the except branch: e is str(e).
process_command_error(e) ==
    Ok200([action |-> "None", todo_id |-> "None", todo_text |-> <<>>,
           result |-> [success |-> FALSE,
                       message |-> <<"Error processing command: ">> \o e],
           message |-> <<"Error: ">> \o e])

\* The texts of the exceptions the call of the reasoning component raises.
Exceptions == {<<"Connection refused">>}

\* ------------------------------------------------------------------- state
VARIABLES
    file,       \* todos.json
    messages,   \* MemorySaver: thread id -> the thread's messages
    pc,         \* the resolver's position: idle, awaiting_reasoning, executing_tools,
                \* done, failed (an exception ended graph.invoke)
    thread,     \* the thread id of the turn in progress (of the last turn when none is)
    returned,   \* what the last operation returned: a tool's dict, an HTTP response
    lastOp,     \* history: the last operation on the store
    created,    \* history: the ids assigned by create, in order
    requests,   \* worker thread -> the HTTP request it is serving, and how far it is
    lastSaved,  \* history: the list handed to the save_todos that wrote last
    persisted,  \* history: the lists the file held at the start or save_todos was given
    todo_graph, \* the global _todo_graph: 0 for None, else the number of an instance
    graphs,     \* the instances create_todo_graph has built, each as its MemorySaver
    turns       \* worker thread -> the process-command request it is serving

vars == <<file, messages, pc, thread, returned, lastOp, created,
          requests, lastSaved, persisted, todo_graph, graphs, turns>>
resolver == <<messages, pc, thread>>
pipeline == <<todo_graph, graphs, turns>>
race == <<requests, lastSaved, persisted, pipeline>>

\* An operation: its function, its arguments (todo_id 0 without one; text and
\* completed <<>> without one, <<v>> for the value v), whether it succeeded
\* (no not-found), and whether it changed the file.
Op(name, todo_id, text, completed, ok, changed) ==
    [name |-> name, todo_id |-> todo_id, text |-> text, completed |-> completed,
     ok |-> ok, changed |-> changed]

NoOp == Op("none", 0, <<>>, <<>>, TRUE, FALSE)

\* A store todos.json may hold when the process starts.
SeedStores ==
    {<<>>,
     <<[id |-> 1, text |-> <<"m", "k">>, completed |-> FALSE,
        created_at |-> isoformat(0)]>>}

\* The worker threads of the server's pool that serve overlapping requests.
Workers == {"w1", "w2"}

\* A worker that serves no request.
NoRequest == [pc |-> "free", name |-> "none", todo_id |-> 0, text |-> <<>>,
              todos |-> <<>>, out |-> <<>>, response |-> <<>>, served |-> 0]

\* A worker that serves no process-command request. built is the value of
\* create_todo_graph() before it is assigned, graph the local of
\* process_command_with_graph (0 while unset).
NoTurn == [pc |-> "free", command |-> "none", thread_id |-> "default",
           built |-> 0, graph |-> 0, served |-> 0]

\* No request is being served by steps of its own; the file holds what it held
\* at the start, and no graph has been built.
Quiet ==
    /\ requests = [w \in Workers |-> NoRequest]
    /\ lastSaved = <<>>
    /\ persisted = {load_todos(file)}
    /\ todo_graph = 0
    /\ graphs = <<>>
    /\ turns = [w \in Workers |-> NoTurn]

Init ==
    /\ file = NoFile
    /\ messages = [t \in Threads |-> <<>>]
    /\ pc = "idle"
    /\ thread = "default"
    /\ returned = Ok200([message |-> <<"Todo API is running">>])
    /\ lastOp = NoOp
    /\ created = <<>>
    /\ Quiet

\* The process starts on the file an earlier run left.
ResolverInit ==
    /\ file \in {NoFile} \cup {save_todos(NoFile, todos) : todos \in SeedStores \ {<<>>}}
    /\ messages = [t \in Threads |-> <<>>]
    /\ pc = "idle"
    /\ thread = "default"
    /\ returned = Ok200([message |-> <<"Todo API is running">>])
    /\ lastOp = NoOp
    /\ created = <<>>
    /\ Quiet

\* Files json.load raises on: an empty file, a dump cut short, and a dump
\* followed by the tail of a longer one.
UnreadableFiles ==
    {[exists |-> TRUE, data |-> <<>>]}
    \cup {[exists |-> TRUE, data |-> SubSeq(json_dump(seed), 1, Len(json_dump(seed)) - 2)] :
            seed \in SeedStores \ {<<>>}}
    \cup {[exists |-> TRUE, data |-> json_dump(seed) \o <<"}", "]">>] :
            seed \in SeedStores \ {<<>>}}

\* The process starts without a file, or on a file json.load raises on.
RecoverInit ==
    /\ file \in {NoFile} \cup UnreadableFiles
    /\ messages = [t \in Threads |-> <<>>]
    /\ pc = "idle"
    /\ thread = "default"
    /\ returned = Ok200([message |-> <<"Todo API is running">>])
    /\ lastOp = NoOp
    /\ created = <<>>
    /\ Quiet

\* The process starts on a store with an item.
SeededInit ==
    /\ file \in {save_todos(NoFile, todos) : todos \in SeedStores \ {<<>>}}
    /\ messages = [t \in Threads |-> <<>>]
    /\ pc = "idle"
    /\ thread = "default"
    /\ returned = Ok200([message |-> <<"Todo API is running">>])
    /\ lastOp = NoOp
    /\ created = <<>>
    /\ Quiet

Now == isoformat(Len(created) + 1)

Idle == pc \in {"idle", "done", "failed"}

\* --------------------------------------------------------- HTTP requests
\* An endpoint has run as operation name(todo_id, text, completed), r being
\* the file it leaves and its response.
Served(name, todo_id, text, completed, r) ==
    /\ file' = r.file
    /\ returned' = r.response
    /\ lastOp' = Op(name, todo_id, text, completed, r.response.status = 200, r.file # file)

GetTodos ==
    /\ Idle
    /\ Served("get_todos", 0, <<>>, <<>>, get_todos(file))
    /\ UNCHANGED <<resolver, created, race>>

PostTodos ==
    /\ Idle
    /\ Len(created) < MaxCreates
    /\ \E text \in Texts :
         LET r == create_todo(file, text, Now) IN
           /\ Served("create_todo", 0, <<text>>, <<>>, r)
           /\ created' = Append(created, r.response.body.id)
    /\ UNCHANGED <<resolver, race>>

GetTodo ==
    /\ Idle
    /\ \E todo_id \in ArgIds : Served("get_todo", todo_id, <<>>, <<>>, get_todo(file, todo_id))
    /\ UNCHANGED <<resolver, created, race>>

PutTodo ==
    /\ Idle
    /\ \E todo_id \in ArgIds,
          text \in {<<>>} \cup {<<t>> : t \in Texts},
          completed \in {<<>>, <<TRUE>>, <<FALSE>>} :
         Served("update_todo", todo_id, text, completed,
                update_todo(file, todo_id, text, completed))
    /\ UNCHANGED <<resolver, created, race>>

DeleteTodo ==
    /\ Idle
    /\ \E todo_id \in ArgIds : Served("delete_todo", todo_id, <<>>, <<>>, delete_todo(file, todo_id))
    /\ UNCHANGED <<resolver, created, race>>

DeleteTodos ==
    /\ Idle
    /\ Served("delete_all_todos", 0, <<>>, <<>>, delete_all_todos(file))
    /\ UNCHANGED <<resolver, created, race>>

\* ------------------------------------------------------- tool invocations
\* The tool a call names has run on the file.
Invoked(call) ==
    LET r == RunTool(file, call, Now) IN
      /\ file' = r.file
      /\ returned' = r.result
      /\ lastOp' = Op(call.name, call.todo_id,
                      IF call.name \in {"create_todo_tool", "update_todo_tool"}
                        THEN <<call.text>> ELSE <<>>,
                      <<>>, r.result.success, r.file # file)
      /\ created' = IF call.name = "create_todo_tool"
                      THEN Append(created, r.result.todo.id)
                      ELSE created

CallsOf(name) == {c \in Calls : c.name = name}

CreateTodoTool ==
    /\ Idle
    /\ Len(created) < MaxCreates
    /\ \E c \in CallsOf("create_todo_tool") : Invoked(c)
    /\ UNCHANGED <<resolver, race>>

DeleteTodoTool ==
    /\ Idle
    /\ \E c \in CallsOf("delete_todo_tool") : Invoked(c)
    /\ UNCHANGED <<resolver, race>>

UpdateTodoTool ==
    /\ Idle
    /\ \E c \in CallsOf("update_todo_tool") : Invoked(c)
    /\ UNCHANGED <<resolver, race>>

CompleteTodoTool ==
    /\ Idle
    /\ \E c \in CallsOf("complete_todo_tool") : Invoked(c)
    /\ UNCHANGED <<resolver, race>>

DeleteAllTodosTool ==
    /\ Idle
    /\ \E c \in CallsOf("delete_all_todos_tool") : Invoked(c)
    /\ UNCHANGED <<resolver, race>>

ListTodosTool ==
    /\ Idle
    /\ \E c \in CallsOf("list_todos_tool") : Invoked(c)
    /\ UNCHANGED <<resolver, race>>

\* ------------------------------------------------- POST /todos/process-command
HumanCount(msgs) == Cardinality({i \in 1..Len(msgs) : msgs[i].type = "human"})

RECURSIVE TurnsIn(_)
TurnsIn(S) ==
    IF S = {} THEN 0
    ELSE LET t == CHOOSE t \in S : TRUE
         IN HumanCount(messages[t]) + TurnsIn(S \ {t})

\* The index of the message that opened the last turn of a thread.
TurnStart(msgs) == Max({i \in 1..Len(msgs) : msgs[i].type = "human"})

\* The index of the last output of the reasoning component.
LastAI(msgs) == Max({i \in 1..Len(msgs) : msgs[i].type = "ai"})

\* The tool calls requested so far in a thread.
Requested(msgs) ==
    Concat([i \in 1..Len(msgs) |->
        IF msgs[i].type = "ai" THEN msgs[i].tool_calls ELSE <<>>])

RECURSIVE RequestedIn(_)
RequestedIn(S) ==
    IF S = {} THEN 0
    ELSE LET t == CHOOSE t \in S : TRUE
         IN Len(Requested(messages[t])) + RequestedIn(S \ {t})

Creates(calls) == Len(SelectSeq(calls, LAMBDA c : c.name = "create_todo_tool"))

\* The outputs the reasoning component may give: a final text, or a tool call.
Outputs ==
    {AIMessage(text, <<>>) : text \in FinalTexts}
    \cup {AIMessage(<<>>, <<c>>) : c \in
            {c \in ModelCalls : /\ RequestedIn(Threads) < MaxToolCalls
                           /\ Len(created) + Creates(<<c>>) <= MaxCreates}}

\* graph.invoke(initial_state, config): the user message joins the thread's
\* checkpointed messages and the graph starts at the agent node.
PostProcessCommand ==
    /\ Idle
    /\ TurnsIn(Threads) < MaxTurns
    /\ \E thread_id \in Threads, command \in Commands :
         /\ messages' = [messages EXCEPT
                           ![thread_id] = add_messages(@, <<HumanMessage(command)>>)]
         /\ thread' = thread_id
    /\ pc' = "awaiting_reasoning"
    /\ UNCHANGED <<file, returned, lastOp, created, race>>

\* The agent node: the reasoning component reads the messages (with the system
\* message on the first message of a thread when there are todos) and gives its
\* output; should_continue routes to the tools or ends the turn, and at the end
\* process_command_with_graph and process_command build the response.
AgentNode ==
    /\ pc = "awaiting_reasoning"
    /\ LET msgs == messages[thread]
           todos == load_todos(file)
           context == IF Len(msgs) = 1 /\ todos # <<>>
                        THEN <<SystemMessage(system_msg(todos))>>
                        ELSE <<>>
       IN \E out \in Outputs :
            LET final == add_messages(msgs, context \o <<out>>) IN
              /\ messages' = [messages EXCEPT ![thread] = final]
              /\ IF should_continue(final) = "tools"
                   THEN /\ pc' = "executing_tools"
                        /\ UNCHANGED <<returned, lastOp>>
                   ELSE /\ pc' = "done"
                        /\ returned' = process_command(final)
                        /\ lastOp' = Op("process_command", 0, <<>>, <<>>, TRUE, FALSE)
    /\ UNCHANGED <<file, thread, created, race>>

\* agent.invoke raises in the agent node: the exception leaves graph.invoke and
\* process_command_with_graph, and process_command returns from its except
\* branch. The checkpoint written when the user message was added stays.
AgentRaises ==
    /\ pc = "awaiting_reasoning"
    /\ \E e \in Exceptions :
         /\ returned' = process_command_error(e)
         /\ lastOp' = Op("process_command", 0, <<e>>, <<>>, FALSE, FALSE)
    /\ pc' = "failed"
    /\ UNCHANGED <<file, messages, thread, created, race>>

\* The tools node: the next requested call not yet answered is run and its
\* result appended as a ToolMessage; after the last one the agent runs again.
ToolsNode ==
    /\ pc = "executing_tools"
    /\ LET msgs == messages[thread]
           calls == msgs[LastAI(msgs)].tool_calls
           n == Len(msgs) - LastAI(msgs) + 1
       IN /\ Invoked(calls[n])
          /\ messages' = [messages EXCEPT
                            ![thread] = add_messages(@, <<ToolMessage(calls[n].name,
                                                                      returned')>>)]
          /\ pc' = IF n = Len(calls) THEN "awaiting_reasoning" ELSE "executing_tools"
    /\ UNCHANGED <<thread, race>>

\* ------------------------------------------------- overlapping HTTP requests
\* The endpoints are plain def functions, which the server runs in threads of
\* its pool: two requests overlap, each thread at its own place between load
\* and save. save_todos is two steps, open(DB_FILE, 'w'), which empties the
\* file, and the write of the dump when the with block closes the file (the
\* dump is shorter than the buffer of the file object, so it is one write).
\* Each thread writes from the start of the file through its own descriptor.

\* The requests that overlap: POST /todos, DELETE /todos/{id}, DELETE /todos
\* and GET /todos.
RaceRequests ==
    {[name |-> "create_todo", todo_id |-> 0, text |-> t] : t \in Texts}
    \cup {[name |-> "delete_todo", todo_id |-> i, text |-> <<>>] : i \in ArgIds}
    \cup {[name |-> "delete_all_todos", todo_id |-> 0, text |-> <<>>],
          [name |-> "get_todos", todo_id |-> 0, text |-> <<>>]}

RECURSIVE ServedBy(_)
ServedBy(S) ==
    IF S = {} THEN 0
    ELSE LET w == CHOOSE w \in S : TRUE
         IN requests[w].served + ServedBy(S \ {w})

\* A write of new at the start of a file that holds old: what old has behind
\* the length of new stays.
Overwrite(old, new) == new \o SubSeq(old, Len(new) + 1, Len(old))

\* A thread of the pool takes a request; delete_all_todos loads nothing.
Accept(w) ==
    /\ requests[w].pc \in {"free", "returned"}
    /\ ServedBy(Workers) < MaxRequests
    /\ \E r \in RaceRequests :
         /\ r.name = "create_todo" => Len(created) < MaxCreates
         /\ requests' = [requests EXCEPT ![w] =
                [pc |-> IF r.name = "delete_all_todos" THEN "open" ELSE "load",
                 name |-> r.name, todo_id |-> r.todo_id, text |-> r.text,
                 todos |-> <<>>, out |-> <<>>,
                 response |-> IF r.name = "delete_all_todos"
                                THEN <<Ok200([message |->
                                               <<"All todos deleted successfully">>])>>
                                ELSE <<>>,
                 served |-> @.served + 1]]
    /\ UNCHANGED <<file, resolver, returned, lastOp, created, lastSaved, persisted, pipeline>>

\* load_todos() and the lines of the endpoint up to its save_todos or its return.
Loaded(w, todos) ==
    LET r == requests[w]
        i == FindTodo(todos, r.todo_id)
        new_todo == [id |-> get_next_id(todos), text |-> r.text,
                     completed |-> FALSE, created_at |-> Now]
    IN CASE r.name = "get_todos" ->
              /\ requests' = [requests EXCEPT ![w].pc = "returned", ![w].todos = todos,
                                              ![w].response = <<Ok200(todos)>>]
              /\ UNCHANGED created
         [] r.name = "create_todo" ->
              /\ requests' = [requests EXCEPT ![w].pc = "open", ![w].todos = todos,
                                              ![w].out = Append(todos, new_todo),
                                              ![w].response = <<Ok200(new_todo)>>]
              /\ created' = Append(created, new_todo.id)
         [] r.name = "delete_todo" /\ i = 0 ->
              /\ requests' = [requests EXCEPT ![w].pc = "returned", ![w].todos = todos,
                                              ![w].response = <<Http404>>]
              /\ UNCHANGED created
         [] r.name = "delete_todo" /\ i # 0 ->
              /\ requests' = [requests EXCEPT
                                ![w].pc = "open", ![w].todos = todos,
                                ![w].out = Without(todos, r.todo_id),
                                ![w].response =
                                    <<Ok200([message |-> <<"Todo deleted successfully">>])>>]
              /\ UNCHANGED created

Load(w) ==
    /\ requests[w].pc = "load"
    /\ Loaded(w, load_todos(file))
    /\ UNCHANGED <<file, resolver, returned, lastOp, lastSaved, persisted, pipeline>>

\* save_todos: open(DB_FILE, 'w') creates the file or cuts it to length 0.
OpenForWrite(w) ==
    /\ requests[w].pc = "open"
    /\ file' = [exists |-> TRUE, data |-> <<>>]
    /\ persisted' = persisted \cup {requests[w].out}
    /\ requests' = [requests EXCEPT ![w].pc = "write"]
    /\ UNCHANGED <<resolver, returned, lastOp, created, lastSaved, pipeline>>

\* save_todos: json.dump and the close of the file write the dump; the
\* endpoint returns.
WriteAndReturn(w) ==
    /\ requests[w].pc = "write"
    /\ file' = [exists |-> TRUE,
                data |-> Overwrite(file.data, json_dump(requests[w].out))]
    /\ lastSaved' = <<requests[w].out>>
    /\ requests' = [requests EXCEPT ![w].pc = "returned"]
    /\ UNCHANGED <<resolver, returned, lastOp, created, persisted, pipeline>>

RaceNext ==
    \E w \in Workers :
        \/ Accept(w)
        \/ Load(w)
        \/ OpenForWrite(w)
        \/ WriteAndReturn(w)

RaceSpec == ResolverInit /\ [][RaceNext]_vars

\* --------------------------------------- overlapping process-command requests
\* process_command is a plain def function too: two requests overlap, each
\* thread at its own line of get_todo_graph. The test of the global, the call
\* of create_todo_graph, the assignment and the read of the return statement
\* are separate steps of a thread; no lock covers them.

RECURSIVE Processed(_)
Processed(S) ==
    IF S = {} THEN 0
    ELSE LET w == CHOOSE w \in S : TRUE
         IN turns[w].served + Processed(S \ {w})

\* POST /todos/process-command reaches graph = get_todo_graph().
ProcessCommand(w) ==
    /\ turns[w].pc \in {"free", "returned"}
    /\ Processed(Workers) < MaxRequests
    /\ \E thread_id \in Threads, command \in Commands :
         turns' = [turns EXCEPT ![w] =
                     [pc |-> "test", command |-> command, thread_id |-> thread_id,
                      built |-> 0, graph |-> 0, served |-> @.served + 1]]
    /\ UNCHANGED <<file, resolver, returned, lastOp, created,
                   requests, lastSaved, persisted, todo_graph, graphs>>

\* if _todo_graph is None:
GraphIsNone(w) ==
    /\ turns[w].pc = "test"
    /\ turns' = [turns EXCEPT ![w].pc = IF todo_graph = 0 THEN "create" ELSE "return"]
    /\ UNCHANGED <<file, resolver, returned, lastOp, created,
                   requests, lastSaved, persisted, todo_graph, graphs>>

\* create_todo_graph(): a new compiled graph with a new, empty MemorySaver.
CreateTodoGraph(w) ==
    /\ turns[w].pc = "create"
    /\ graphs' = Append(graphs, [t \in Threads |-> <<>>])
    /\ turns' = [turns EXCEPT ![w].pc = "assign", ![w].built = Len(graphs) + 1]
    /\ UNCHANGED <<file, resolver, returned, lastOp, created,
                   requests, lastSaved, persisted, todo_graph>>

\* _todo_graph = (the graph built)
AssignTodoGraph(w) ==
    /\ turns[w].pc = "assign"
    /\ todo_graph' = turns[w].built
    /\ turns' = [turns EXCEPT ![w].pc = "return"]
    /\ UNCHANGED <<file, resolver, returned, lastOp, created,
                   requests, lastSaved, persisted, graphs>>

\* return _todo_graph, into the local graph of process_command_with_graph.
GetTodoGraph(w) ==
    /\ turns[w].pc = "return"
    /\ turns' = [turns EXCEPT ![w].pc = "invoke", ![w].graph = todo_graph]
    /\ UNCHANGED <<file, resolver, returned, lastOp, created,
                   requests, lastSaved, persisted, todo_graph, graphs>>

\* graph.invoke(initial_state, config) on the instance the thread holds, the
\* reasoning component answering with a final text: the user message and the
\* agent node's messages join the thread's messages in that instance's
\* MemorySaver, and process_command returns the envelope.
GraphInvoke(w) ==
    /\ turns[w].pc = "invoke"
    /\ LET g == turns[w].graph
           msgs == add_messages(graphs[g][turns[w].thread_id],
                                <<HumanMessage(turns[w].command)>>)
           todos == load_todos(file)
           context == IF Len(msgs) = 1 /\ todos # <<>>
                        THEN <<SystemMessage(system_msg(todos))>>
                        ELSE <<>>
       IN \E text \in FinalTexts :
            LET final == add_messages(msgs, context \o <<AIMessage(text, <<>>)>>) IN
              /\ graphs' = [graphs EXCEPT ![g][turns[w].thread_id] = final]
              /\ returned' = process_command(final)
    /\ lastOp' = Op("process_command", 0, <<>>, <<>>, TRUE, FALSE)
    /\ turns' = [turns EXCEPT ![w].pc = "returned"]
    /\ UNCHANGED <<file, resolver, created, requests, lastSaved, persisted, todo_graph>>

GraphNext ==
    \E w \in Workers :
        \/ ProcessCommand(w)
        \/ GraphIsNone(w)
        \/ CreateTodoGraph(w)
        \/ AssignTodoGraph(w)
        \/ GetTodoGraph(w)
        \/ GraphInvoke(w)

GraphSpec == Init /\ [][GraphNext]_vars

\* The store operations: the HTTP endpoints and the tools, each run to its end.
Next ==
    \/ GetTodos
    \/ PostTodos
    \/ GetTodo
    \/ PutTodo
    \/ DeleteTodo
    \/ DeleteTodos
    \/ CreateTodoTool
    \/ DeleteTodoTool
    \/ UpdateTodoTool
    \/ CompleteTodoTool
    \/ DeleteAllTodosTool
    \/ ListTodosTool

Spec == Init /\ [][Next]_vars

\* The same operations, the process starting on a file it cannot read.
RecoverySpec == RecoverInit /\ [][Next]_vars

\* Creates and deletes on a store that starts with an item.
CreateDeleteNext ==
    \/ PostTodos
    \/ DeleteTodo
    \/ DeleteTodos
    \/ CreateTodoTool
    \/ DeleteTodoTool
    \/ DeleteAllTodosTool

CreateDeleteSpec == SeededInit /\ [][CreateDeleteNext]_vars

\* The command resolver: turns of POST /todos/process-command, whose tools
\* are the only operations on the store.
ResolverNext ==
    \/ PostProcessCommand
    \/ AgentNode
    \/ ToolsNode

ResolverSpec == ResolverInit /\ [][ResolverNext]_vars

\* The node that is next in a turn in progress has run: the agent node and
\* the tools node each leave the position they ran at.
NodeRuns ==
    /\ pc \in {"awaiting_reasoning", "executing_tools"}
    /\ pc' \in {"awaiting_reasoning", "executing_tools", "done"}
    /\ pc' # pc

\* graph.invoke runs the node that is next until the graph ends, and the
\* reasoning component answers every call: a turn in progress does not stop
\* between two nodes.
LiveSpec ==
    /\ ResolverInit
    /\ [][ResolverNext]_vars
    /\ WF_pc(NodeRuns)

\* The command resolver with a reasoning component whose call may raise.
FaultNext ==
    \/ PostProcessCommand
    \/ AgentNode
    \/ AgentRaises
    \/ ToolsNode

FaultSpec == Init /\ [][FaultNext]_vars

\* ------------------------------------------------------------ properties
Store == load_todos(file)
Ids(todos) == {todos[i].id : i \in 1..Len(todos)}
CreateOps == {"create_todo_tool", "create_todo"}

\* The reported not-found outcome for an id.
NotFoundResult(id) ==
    [success |-> FALSE, message |-> <<"Todo with ID ">> \o Dec(id) \o <<" not found">>]

\* In the thread of the current turn the last two operations were two tool
\* calls, one directly after the other, the second just finished.
RanTwoTools ==
    LET msgs == messages[thread]
        n == Len(msgs)
    IN /\ pc = "awaiting_reasoning"
       /\ n >= 4
       /\ msgs[n - 3].type = "ai" /\ msgs[n - 2].type = "tool"
       /\ msgs[n - 1].type = "ai" /\ msgs[n].type = "tool"
FirstCall == messages[thread][Len(messages[thread]) - 3].tool_calls[1]
FirstResult == messages[thread][Len(messages[thread]) - 2].content
SecondCall == messages[thread][Len(messages[thread]) - 1].tool_calls[1]
SecondResult == messages[thread][Len(messages[thread])].content

\* The tool messages of the last turn of the current thread, and its last message.
TurnTools ==
    {i \in ToolIndexes(messages[thread]) : i > TurnStart(messages[thread])}
FinalMessage == messages[thread][Len(messages[thread])]

\* C1: in every state reachable through the tools and the HTTP endpoints from
\* an empty store, no two items of the store have the same id.
C1_UniqueIds ==
    \A i, j \in 1..Len(Store) : i # j => Store[i].id # Store[j].id

C1_Witness ==
    /\ Len(Store) = 2
    /\ lastOp.name \in CreateOps

\* C2 as stated: the id a create assigns is strictly greater than every id
\* assigned by an earlier create, so no id is ever assigned twice.
C2_NeverReused ==
    \A i, j \in 1..Len(created) : i < j => created[i] < created[j]

\* C2 as amended: the id a create assigns is strictly greater than the id of
\* every item that is in the store when the create runs.
C2_AboveStore ==
    [][Len(created') > Len(created)
         => \A i \in 1..Len(load_todos(file)) :
                created'[Len(created')] > load_todos(file)[i].id]_vars

C2_Witness ==
    /\ Len(created) = 2
    /\ created[1] = created[2]
    /\ lastOp.name \in CreateOps

\* C3: the update tool and the complete tool, given an id that no item of the
\* store has, return success=false with the message naming the id, and leave
\* the persisted file exactly as it was.
C3_NotFoundUnchanged ==
    [][\A id \in ArgIds :
          (/\ lastOp'.name \in {"update_todo_tool", "complete_todo_tool"}
           /\ lastOp'.todo_id = id
           /\ id \notin Ids(load_todos(file)))
          => (returned' = NotFoundResult(id) /\ file' = file)]_vars

C3_Witness ==
    /\ lastOp.name = "update_todo_tool"
    /\ ~lastOp.ok
    /\ Store # <<>>

\* C4: when the delete tool runs twice in a row on the same id, the second
\* run returns success=false (not found) and leaves the file unchanged,
\* whether or not the first run succeeded.
C4_SecondDeleteFails ==
    (/\ RanTwoTools
     /\ FirstCall.name = "delete_todo_tool"
     /\ SecondCall.name = "delete_todo_tool"
     /\ FirstCall.todo_id = SecondCall.todo_id)
    => (/\ SecondResult = NotFoundResult(SecondCall.todo_id)
        /\ returned = SecondResult
        /\ ~lastOp.changed)

C4_Witness ==
    /\ RanTwoTools
    /\ FirstCall.name = "delete_todo_tool"
    /\ SecondCall.name = "delete_todo_tool"
    /\ FirstCall.todo_id = SecondCall.todo_id
    /\ FirstResult.success

\* C5: when the last tool run in a turn reported not-found, the result of the
\* turn is that ToolResult (success=false), not a success=true envelope built
\* from the final text.
C5_NotFoundReported ==
    (/\ pc = "done"
     /\ TurnTools # {}
     /\ ~messages[thread][Max(TurnTools)].content.success)
    => returned.body.result = messages[thread][Max(TurnTools)].content

\* C6: when no tool ran in the turn, the result of the turn is
\* {success: true, message: <final text>}, never a ToolResult of an earlier
\* turn of the thread.
C6_NoToolFallback ==
    (pc = "done" /\ TurnTools = {})
    => returned.body.result = [success |-> TRUE, message |-> FinalMessage.content]

\* C7: create (the tool and POST /todos) always succeeds and appends exactly
\* one item at the end of the store, with the next id, the given text and
\* completed=false; the earlier items and their order are unchanged.
C7_CreateAppends ==
    [][lastOp'.name \in CreateOps
         => LET old == load_todos(file)
                new == load_todos(file')
                item == new[Len(new)]
            IN /\ Len(new) = Len(old) + 1
               /\ SubSeq(new, 1, Len(old)) = old
               /\ item.id = IF old = <<>> THEN 1 ELSE Max(Ids(old)) + 1
               /\ item.text = lastOp'.text[1]
               /\ item.completed = FALSE
               /\ lastOp'.ok
               /\ IF lastOp'.name = "create_todo_tool"
                    THEN returned'.success /\ returned'.todo = item
                    ELSE returned'.status = 200 /\ returned'.body = item]_vars

C7_Witness ==
    /\ lastOp.name = "create_todo_tool"
    /\ Len(Store) = 2

\* C8: the complete tool, given the id of an item of the store, returns
\* success=true with "Marked todo as completed: <text>", sets completed on that
\* item and changes nothing else: its id, text and created_at, the other
\* items, the length and the order of the store stay as they were.
C8_CompleteFrame ==
    [][\A id \in ArgIds :
          (/\ lastOp'.name = "complete_todo_tool"
           /\ lastOp'.todo_id = id
           /\ id \in Ids(load_todos(file)))
          => LET old == load_todos(file)
                 new == load_todos(file')
             IN /\ Len(new) = Len(old)
                /\ \A i \in 1..Len(old) :
                     IF old[i].id = id
                       THEN /\ new[i] = [old[i] EXCEPT !.completed = TRUE]
                            /\ returned' =
                                 [success |-> TRUE,
                                  message |-> <<"Marked todo as completed: ">>
                                              \o old[i].text]
                       ELSE new[i] = old[i]]_vars

C8_Witness ==
    /\ lastOp.name = "complete_todo_tool"
    /\ lastOp.ok
    /\ Len(Store) = 2

\* C9: deleteAll returns success=true with "All todos deleted" and leaves the
\* store empty; a list run directly after it returns no items and count 0;
\* list never changes the file and its count is the number of items returned.
C9_DeleteAllThenList ==
    /\ lastOp.name = "delete_all_todos_tool"
         => /\ returned = [success |-> TRUE, message |-> <<"All todos deleted">>]
            /\ Store = <<>>
    /\ lastOp.name = "list_todos_tool"
         => /\ ~lastOp.changed
            /\ returned.success
            /\ returned.todos = Store
            /\ returned.count = Len(returned.todos)
    /\ (/\ RanTwoTools
        /\ FirstCall.name = "delete_all_todos_tool"
        /\ SecondCall.name = "list_todos_tool")
         => /\ SecondResult.todos = <<>>
            /\ SecondResult.count = 0

C9_Witness ==
    /\ RanTwoTools
    /\ FirstCall.name = "delete_all_todos_tool"
    /\ SecondCall.name = "list_todos_tool"
    /\ messages[thread][2].type = "system"

\* C10: save(load()) leaves the store contents unchanged: a load after it
\* reads the same items, with the same id, text, completed and created_at.
C10_RoundTrip ==
    LET todos == load_todos(file)
    IN load_todos(save_todos(file, todos)) = todos

C10_Witness ==
    /\ file.exists
    /\ \E i \in 1..Len(Store) :
         /\ Store[i].text = <<BS, "u", DQ, EACUTE>>
         /\ Store[i].completed

\* The file is absent, or one of the files json.load raises on.
Unreadable(f) == f = NoFile \/ f \in UnreadableFiles

\* The item a create makes on an empty store.
FirstItem(text) ==
    [id |-> 1, text |-> text, completed |-> FALSE, created_at |-> Now]

\* C11: load returns the empty sequence, and no error, whenever the file is
\* absent or unparseable, and every operation that starts with load then
\* behaves exactly as on an empty store: create makes item 1; delete, update,
\* complete and the HTTP endpoints on an id report not-found and leave the
\* file alone; list and GET /todos return no items.
C11_UnreadableAsEmpty ==
    /\ [](Unreadable(file) => load_todos(file) = <<>>)
    /\ [][Unreadable(file) =>
            CASE lastOp'.name = "create_todo_tool" ->
                   /\ returned' = [success |-> TRUE,
                                   todo |-> FirstItem(lastOp'.text[1]),
                                   message |-> <<"Created todo: ">> \o lastOp'.text[1]]
                   /\ load_todos(file') = <<FirstItem(lastOp'.text[1])>>
              [] lastOp'.name = "create_todo" ->
                   /\ returned' = [status |-> 200, body |-> FirstItem(lastOp'.text[1])]
                   /\ load_todos(file') = <<FirstItem(lastOp'.text[1])>>
              [] lastOp'.name \in {"delete_todo_tool", "update_todo_tool",
                                   "complete_todo_tool"} ->
                   /\ returned' = NotFoundResult(lastOp'.todo_id)
                   /\ file' = file
              [] lastOp'.name = "list_todos_tool" ->
                   /\ returned' = [success |-> TRUE, todos |-> <<>>, count |-> 0]
                   /\ file' = file
              [] lastOp'.name = "delete_all_todos_tool" ->
                   /\ returned'.success
                   /\ file'.exists /\ load_todos(file') = <<>>
              [] lastOp'.name = "get_todos" ->
                   /\ returned' = [status |-> 200, body |-> <<>>]
                   /\ file' = file
              [] lastOp'.name \in {"get_todo", "update_todo", "delete_todo"} ->
                   /\ returned'.status = 404
                   /\ file' = file
              [] lastOp'.name = "delete_all_todos" ->
                   /\ returned'.status = 200
                   /\ file'.exists /\ load_todos(file') = <<>>]_vars

C11_Witness ==
    /\ file \in UnreadableFiles
    /\ Len(file.data) > Len(json_dump(<<>>))
    /\ lastOp.name = "update_todo_tool"
    /\ returned = NotFoundResult(lastOp.todo_id)

\* C12: when the call of the reasoning component raises, process-command does
\* not raise: it answers with an envelope whose action is null and whose
\* result has success=false and a message holding the exception text; the
\* reasoning component is not called again for that request, and nothing but a
\* new request follows.
C12_ExceptionEnvelope ==
    [][/\ (pc' = "failed" /\ pc # "failed") =>
            /\ pc = "awaiting_reasoning"
            /\ returned'.status = 200
            /\ returned'.body.action = "None"
            /\ returned'.body.result.success = FALSE
            /\ \E e \in Exceptions :
                 /\ returned'.body.result.message = <<"Error processing command: ">> \o e
                 /\ returned'.body.message = <<"Error: ">> \o e
            /\ messages' = messages
            /\ file' = file
       /\ (pc = "failed" /\ pc' # "failed") =>
            /\ pc' = "awaiting_reasoning"
            /\ \E t \in Threads, c \in Commands :
                 messages' = [messages EXCEPT ![t] = Append(@, HumanMessage(c))]]_vars

C12_Witness ==
    /\ pc = "failed"
    /\ TurnTools # {}
    /\ returned.body.result.success = FALSE

\* left is the start of right.
IsPrefix(left, right) ==
    Len(left) <= Len(right) /\ SubSeq(right, 1, Len(left)) = left

\* C13: the conversation log of every thread is append-only across the calls
\* of the resolver: each step leaves the log it had as a prefix of the log it
\* has, a call starts by adding the user text at the end of its thread's log,
\* and the log of every thread but the call's stays as it was.
C13_AppendOnly ==
    [][/\ \A t \in Threads :
            /\ IsPrefix(messages[t], messages'[t])
            /\ t # thread' => messages'[t] = messages[t]
       /\ (Idle /\ pc' = "awaiting_reasoning") =>
            \E c \in Commands :
                messages'[thread'] = messages[thread'] \o <<HumanMessage(c)>>]_vars

C13_Witness ==
    /\ pc = "done"
    /\ HumanCount(messages[thread]) = 2
    /\ Len(messages[thread]) > 4

\* C14: for an id no item of the store has, GET, PUT and DELETE /todos/{id}
\* answer 404 and leave the file as it was; for an id an item has, PUT changes
\* the text and the completed flag of that item when they are supplied, and
\* nothing else: its id and created_at, a field not supplied, the other items
\* and the order stay.
PutChanged(old, new, op, response) ==
    /\ Len(new) = Len(old)
    /\ \A i \in 1..Len(old) :
         IF old[i].id = op.todo_id
           THEN /\ new[i].id = old[i].id
                /\ new[i].created_at = old[i].created_at
                /\ new[i].text = IF op.text = <<>> THEN old[i].text ELSE op.text[1]
                /\ new[i].completed = IF op.completed = <<>> THEN old[i].completed
                                      ELSE op.completed[1]
                /\ response = [status |-> 200, body |-> new[i]]
           ELSE new[i] = old[i]

C14_HttpNotFound ==
    [][lastOp'.name \in {"get_todo", "update_todo", "delete_todo"} =>
          IF lastOp'.todo_id \notin Ids(load_todos(file))
            THEN /\ returned' = [status |-> 404,
                                 body |-> [detail |-> <<"Todo not found">>]]
                 /\ file' = file
            ELSE lastOp'.name = "update_todo" =>
                   PutChanged(load_todos(file), load_todos(file'), lastOp', returned')]_vars

C14_Witness ==
    /\ lastOp.name = "update_todo"
    /\ lastOp.ok
    /\ lastOp.text # <<>>
    /\ lastOp.completed = <<>>
    /\ \E i \in 1..Len(Store) : Store[i].id = lastOp.todo_id /\ Store[i].completed
    /\ Len(Store) = 2

\* The last message of the current thread after the step.
Latest == messages'[thread'][Len(messages'[thread'])]

\* The step adds exactly the message Latest to the current thread.
AddsOne == messages'[thread'] = Append(messages[thread'], Latest)

\* C15: a turn starts in awaiting_reasoning; from there the resolver goes to
\* executing_tools exactly when the output just given requests a tool call and
\* to done exactly when it requests none; from executing_tools it goes back to
\* awaiting_reasoning once the output of the tool requested is in the thread;
\* nothing leaves done but the start of a new turn. (A call of the reasoning
\* component that raises gives no output and ends the request: failed.)
C15_Transitions ==
    [][/\ pc' # pc =>
            \/ /\ pc \in {"idle", "done", "failed"}
               /\ pc' = "awaiting_reasoning"
               /\ AddsOne /\ Latest.type = "human"
            \/ /\ pc = "awaiting_reasoning"
               /\ pc' = "executing_tools"
               /\ Latest.type = "ai" /\ Latest.tool_calls # <<>>
            \/ /\ pc = "awaiting_reasoning"
               /\ pc' = "done"
               /\ Latest.type = "ai" /\ Latest.tool_calls = <<>>
            \/ /\ pc = "executing_tools"
               /\ pc' = "awaiting_reasoning"
               /\ AddsOne /\ Latest.type = "tool"
               /\ messages[thread][Len(messages[thread])].type = "ai"
               /\ Latest.name = messages[thread][Len(messages[thread])].tool_calls[1].name
               /\ Latest.content = returned'
            \/ /\ pc = "awaiting_reasoning"
               /\ pc' = "failed"
               /\ messages' = messages
       /\ (pc = "awaiting_reasoning" /\ messages' # messages) =>
            /\ Latest.type = "ai"
            /\ pc' = IF Latest.tool_calls # <<>> THEN "executing_tools" ELSE "done"
       /\ pc \in {"executing_tools", "awaiting_reasoning"} => thread' = thread]_vars

C15_Witness ==
    /\ pc = "done"
    /\ Cardinality(TurnTools) = 2
    /\ HumanCount(messages[thread]) = 2

\* No request is between its start and its return.
AllReturned == \A w \in Workers : requests[w].pc \in {"free", "returned"}

\* C16: when mutations overlap, the store that is left is exactly the list of
\* the save that wrote last; two overlapping creates that loaded the same list
\* leave that list with one new item, and both answers carry the same id.
C16_LastWriterWins ==
    AllReturned =>
      /\ lastSaved # <<>> => load_todos(file) = lastSaved[1]
      /\ (/\ \A w \in Workers : requests[w].name = "create_todo"
          /\ requests["w1"].todos = requests["w2"].todos)
         => /\ Len(load_todos(file)) = Len(requests["w1"].todos) + 1
            /\ requests["w1"].response[1].body.id = requests["w2"].response[1].body.id

\* C17: a load never reads a partly written file: what it returns is a list
\* the file held at the start or a list given to a save, never an empty or
\* cut list it reads while the file is being rewritten.
C17_NoPartialRead ==
    \A w \in Workers :
        (requests[w].name \in {"get_todos", "create_todo", "delete_todo"}
         /\ requests[w].pc # "load")
        => requests[w].todos \in persisted

\* Whatever came before in the thread, a request for a tool is followed and
\* the tool's output goes back to the reasoning component.
NoCap ==
    /\ (pc = "awaiting_reasoning" /\ Latest.type = "ai" /\ Latest.tool_calls # <<>>)
         => (pc' = "executing_tools")
    /\ (pc = "executing_tools" /\ Latest.type = "tool")
         => (pc' = "awaiting_reasoning")

\* C18: a turn reaches done once the reasoning component gives an output that
\* requests no tool (it does within MaxToolCalls requests); the resolver
\* itself sets no cap: whatever the number of round trips so far, an output
\* that requests a tool sends the turn to the tools, and the tools send it
\* back to the reasoning component.
C18_TurnEnds ==
    /\ (pc = "awaiting_reasoning") ~> (pc = "done")
    /\ [][NoCap]_vars

C18_Witness ==
    /\ pc = "done"
    /\ Cardinality(TurnTools) = MaxToolCalls
    /\ HumanCount(messages[thread]) = 1

\* The step before deleted the item with the highest id: the list old is what
\* it left, so every id in old is below the id it deleted.
DeletedHighest(old, before) ==
    /\ before.name \in {"delete_todo_tool", "delete_todo"}
    /\ before.ok
    /\ \A i \in 1..Len(old) : old[i].id < before.todo_id

DeletedAll(before) == before.name \in {"delete_all_todos_tool", "delete_all_todos"}

\* The id the create of this step assigned.
Assigned == created'[Len(created')]

\* C19 as stated: the id a create assigns is 1 on an empty store and the
\* highest id in the store plus 1 otherwise; so a create right after the delete
\* of the item with the highest id assigns the id of the deleted item, and a
\* create right after deleteAll assigns 1.
C19_ReusesDeletedId ==
    [][lastOp'.name \in CreateOps =>
          /\ Assigned = IF load_todos(file) = <<>> THEN 1
                        ELSE Max(Ids(load_todos(file))) + 1
          /\ DeletedHighest(load_todos(file), lastOp) => Assigned = lastOp.todo_id
          /\ DeletedAll(lastOp) => Assigned = 1]_vars

\* What a create assigns after the delete of the item with the highest id:
\* never more than the deleted id; the deleted id when that was one above the
\* highest id left (or 1, nothing being left); a lower id otherwise.
AfterDeletedHighest(old, deleted, id) ==
    /\ id <= deleted
    /\ id = deleted <=> deleted = (IF old = <<>> THEN 1 ELSE Max(Ids(old)) + 1)

\* C19 as amended: the id a create assigns is 1 on an empty store and the
\* highest id in the store plus 1 otherwise; so a create right after the delete
\* of the item with the highest id assigns the deleted id when the deleted id
\* was one above the highest id left (or was 1), and a lower id otherwise,
\* and a create right after deleteAll assigns 1.
C19_NextId ==
    [][lastOp'.name \in CreateOps =>
          /\ Assigned = IF load_todos(file) = <<>> THEN 1
                        ELSE Max(Ids(load_todos(file))) + 1
          /\ DeletedHighest(load_todos(file), lastOp)
               => AfterDeletedHighest(load_todos(file), lastOp.todo_id, Assigned)
          /\ DeletedAll(lastOp) => Assigned = 1]_vars

C19_Witness ==
    /\ lastOp.name \in CreateOps
    /\ created = <<2, 2>>
    /\ Ids(Store) = {1, 2}

\* The reading of the clock an item's created_at holds.
CreatedAt(t) == CHOOSE n \in 0..(MaxCreates + 1) : isoformat(n) = t.created_at

\* C20: in every state reachable from an empty store through create, delete,
\* update, complete and deleteAll, the items are in the store in the order
\* they were created and in strictly increasing order of id.
C20_CreationOrder ==
    \A i, j \in 1..Len(Store) :
        i < j => /\ Store[i].id < Store[j].id
                 /\ CreatedAt(Store[i]) < CreatedAt(Store[j])

C20_Witness ==
    /\ Len(Store) = 2
    /\ lastOp.name = "update_todo"
    /\ lastOp.ok
    /\ lastOp.todo_id = 1

\* The list new is the list old without its item at index k.
Removed(old, new, k) ==
    /\ Len(new) = Len(old) - 1
    /\ \A i \in 1..Len(new) : new[i] = IF i < k THEN old[i] ELSE old[i + 1]

\* The delete of the step, on the list old that has an item with the id,
\* succeeded and left the list new.
Deleted(old, new, op, result) ==
    /\ op.ok
    /\ \E k \in 1..Len(old) :
         /\ old[k].id = op.todo_id
         /\ Removed(old, new, k)
         /\ result = IF op.name = "delete_todo_tool"
                       THEN [success |-> TRUE,
                             message |-> <<"Deleted todo: ">> \o old[k].text]
                       ELSE [status |-> 200,
                             body |-> [message |-> <<"Todo deleted successfully">>]]
    /\ \A i \in 1..Len(new) : new[i].id # op.todo_id

\* C21: delete (the tool and DELETE /todos/{id}) of an id that an item of the
\* store has reports success, removes exactly that item, and leaves every
\* other item and their order as they were.
C21_DeleteFrame ==
    [][(/\ lastOp'.name \in {"delete_todo_tool", "delete_todo"}
        /\ lastOp'.todo_id \in Ids(load_todos(file)))
         => Deleted(load_todos(file), load_todos(file'), lastOp', returned')]_vars

C21_Witness ==
    /\ lastOp.name = "delete_todo_tool"
    /\ lastOp.ok
    /\ lastOp.todo_id = 1
    /\ Ids(Store) = {2}

\* The step from the list old to the list new cleared the flag of an item
\* only by a PUT of that item with completed false; a complete of an item
\* that was completed left the list as it was and reported success.
FlagKept(old, new, op, result) ==
    /\ \A i \in 1..Len(old), j \in 1..Len(new) :
         (old[i].id = new[j].id /\ old[i].completed /\ ~new[j].completed)
           => (/\ op.name = "update_todo"
               /\ op.todo_id = old[i].id
               /\ op.completed = <<FALSE>>)
    /\ \A i \in 1..Len(old) :
         (op.name = "complete_todo_tool" /\ op.todo_id = old[i].id
            /\ old[i].completed)
           => (/\ new = old
               /\ result = [success |-> TRUE,
                            message |-> <<"Marked todo as completed: ">>
                                        \o old[i].text])

\* C23: no tool and no endpoint other than PUT /todos/{id} with completed
\* false turns the completed flag of an item that stays in the store from
\* true to false, and a complete of an item already completed leaves the
\* store unchanged and returns success.  (A step that leaves todos.json as
\* it was and is no complete has nothing to compare.)
C23_CompletedSticks ==
    [][(file' # file \/ lastOp'.name = "complete_todo_tool")
         => FlagKept(load_todos(file), load_todos(file'), lastOp', returned')]_vars

C23_Witness ==
    /\ lastOp.name = "complete_todo_tool"
    /\ lastOp.ok
    /\ ~lastOp.changed
    /\ \E i \in 1..Len(Store) : Store[i].id = lastOp.todo_id /\ Store[i].completed

\* C22: create_todo_graph has built at most one instance, every request runs
\* on the instance the global holds, and no other instance holds messages of
\* a session.
C22_BuiltOnce ==
    /\ Len(graphs) <= 1
    /\ \A w \in Workers : turns[w].graph \in {0, todo_graph}
    /\ \A g \in 1..Len(graphs) :
         g # todo_graph => \A t \in Threads : graphs[g][t] = <<>>

====
